---- MODULE Spec2Model ----
(***************************************************************************)
(* A model of sequence/data/datasets.py (download_and_unpack_yoochoose and *)
(* yoochoose) and of the training driver sequence/main/stamp.py (main).    *)
(*                                                                         *)
(* A data frame is a sequence of rows [session_id, timestamp, item_id]; a  *)
(* file of the storage directory is [exists, bytes]; the archive behind    *)
(* the download URL unpacks to the two .dat files held in raw.             *)
(***************************************************************************)
EXTENDS Integers, Sequences, FiniteSets, TLC

\* ------------------------------------------------------------- bounds
\* Rows of the data file in the single-call pipeline specification.
MaxRows == 4
\* Rows of the data file in the specification of the split.
MaxSplitRows == 3
\* Rows of the data file in the repeated-call (cache) specification.
MaxCacheRows == 2
\* The tail size of the temporal split, 71,233 in the source, scaled to the
\* row counts above.
TailRows == 1
\* The divisor of the div64 sub-sample, 60 in the source, scaled likewise.
DivBy == 2
\* Calls of yoochoose on the storage directories in one behaviour.
MaxCalls == 2
\* Calls of download_and_unpack_yoochoose in one behaviour.
MaxAcqCalls == 3
\* Storage directories of the acquisition specification.
NDirs == 2
\* args.epochs is drawn from 0..MaxEpochs; one epoch advances the global
\* step by at most MaxStepInc; init_global_step gives 0..MaxInitStep.
MaxEpochs == 3
MaxStepInc == 1
MaxInitStep == 1

SessionIds == {1, 2}
ItemIds == {1, 2}
Timestamps == {1, 2}

None == 0 - 1

\* The values the parameters of yoochoose are drawn from.
MinUniqueValues == {1, 2}
NRowsValues == {None, 2}
SkipRowsValues == {None, 1}

Min(a, b) == IF a < b THEN a ELSE b
Max(a, b) == IF a > b THEN a ELSE b

RECURSIVE SetToSortedSeq(_)
SetToSortedSeq(S) ==
    IF S = {} THEN <<>>
    ELSE LET m == CHOOSE x \in S : \A y \in S : x <= y
         IN <<m>> \o SetToSortedSeq(S \ {m})

RECURSIVE SeqsUpTo(_, _)
SeqsUpTo(S, n) ==
    IF n = 0 THEN {<<>>}
    ELSE LET shorter == SeqsUpTo(S, n - 1)
         IN shorter \cup {Append(s, x) : s \in {t \in shorter : Len(t) = n - 1}, x \in S}

\* ------------------------------------------------------- the raw files
Rows == [session_id : SessionIds, timestamp : Timestamps, item_id : ItemIds]

FileNames == {"yoochoose-clicks.dat", "yoochoose-test.dat"}

\* The archives considered: one of the two files holds up to n rows, the
\* other none.
Archives(n) ==
    {f \in [FileNames -> SeqsUpTo(Rows, n)] : \E fn \in FileNames : f[fn] = <<>>}

\* ------------------------------------------------- yoochoose's parameters
Params ==
    [nrows : NRowsValues, min_unique : MinUniqueValues,
     skiprows : SkipRowsValues, div64 : BOOLEAN, test : BOOLEAN,
     cache : BOOLEAN, return_agg : BOOLEAN, filter_unique : BOOLEAN]

\* --------------------------------------------------- data frame helpers
\* df.iloc[-k:] : Python turns the start -k into max(n - k, 0), and -0 is 0.
ILocTail(df, k) ==
    LET n == Len(df)
        start == IF k = 0 THEN 0 ELSE Max(n - k, 0)
    IN SubSeq(df, start + 1, n)

\* df.iloc[:-k] : the stop -k is max(n - k, 0), and -0 is 0.
ILocHead(df, k) ==
    LET n == Len(df)
        stop == IF k = 0 THEN 0 ELSE Max(n - k, 0)
    IN SubSeq(df, 1, stop)

ItemsOf(df) == {df[i].item_id : i \in DOMAIN df}
SessionsOf(df) == {df[i].session_id : i \in DOMAIN df}

\* pd.read_csv(file_name, nrows=nrows, skiprows=skiprows)
ReadCsv(file, nrows, skiprows) ==
    LET kept == IF skiprows = None THEN file
                ELSE SubSeq(file, skiprows + 1, Len(file))
    IN IF nrows = None THEN kept ELSE SubSeq(kept, 1, Min(nrows, Len(kept)))

\* value_counts, the >= min_unique filter and the inner merge on item_id
ItemCount(df, it) == Cardinality({i \in DOMAIN df : df[i].item_id = it})
FilterUnique(df, min_unique) ==
    SelectSeq(df, LAMBDA r : ItemCount(df, r.item_id) >= min_unique)

\* the per-session count, the count > 1 filter and the inner merge on session_id
SessionCount(df, s) == Cardinality({i \in DOMAIN df : df[i].session_id = s})
DropShortSessions(df) ==
    SelectSeq(df, LAMBDA r : SessionCount(df, r.session_id) > 1)

\* df.sort_values("timestamp"): the default sort is not stable, so rows of
\* equal timestamp come out in any order.
SortValues(df) ==
    LET n == Len(df)
        orders == {f \in [1..n -> 1..n] :
                      /\ \A i, j \in 1..n : i # j => f[i] # f[j]
                      /\ \A i, j \in 1..n :
                            i < j => df[f[i]].timestamp <= df[f[j]].timestamp}
    IN {[i \in 1..n |-> df[f[i]]] : f \in orders}

\* df.iloc[:71233] in place of df.iloc[-71233:]
SplitTestHead(df) == SubSeq(df, 1, Min(TailRows, Len(df)))

\* the split of lines 179-180
SplitTest(df) == ILocTail(df, TailRows)
SplitTrain(df) == ILocHead(df, TailRows)

\* df_test[df_test["item_id"].isin(df["item_id"])]
DropUnseen(df_test, df) ==
    SelectSeq(df_test, LAMBDA r : r.item_id \in ItemsOf(df))

\* df.drop_duplicates("session_id"): the first row of every session
DropDuplicates(df) ==
    LET first(i) == \A j \in 1..(i - 1) : df[j].session_id # df[i].session_id
        idx == SetToSortedSeq({i \in DOMAIN df : first(i)})
    IN [k \in 1..Len(idx) |-> df[idx[k]]]

\* n = sessions.shape[0] // 60 ; sessions.iloc[-n:]
Div64Sessions(sorted_sessions) ==
    SessionsOf(ILocTail(sorted_sessions, Len(sorted_sessions) \div DivBy))

\* df.merge(sessions, how="inner", on="session_id")
MergeSessions(df, sessions) ==
    SelectSeq(df, LAMBDA r : r.session_id \in sessions)

\* df.groupby("session_id").agg(list): session_id -> item_ids, in row order
GroupbyAggList(df) ==
    [s \in SessionsOf(df) |->
        LET rows == SelectSeq(df, LAMBDA r : r.session_id = s)
        IN [i \in 1..Len(rows) |-> rows[i].item_id]]

\* [r[1] for r in agg.itertuples()]: the lists in index (session_id) order
Itertuples(agg) ==
    LET idx == SetToSortedSeq(DOMAIN agg)
    IN [k \in 1..Len(idx) |-> agg[idx[k]]]

\* ------------------------------------------- Language, Dataset, pickle
\* Language: the vocabulary of the training sentences, in order of first
\* appearance; the id of an item is its place in it.
RECURSIVE Vocabulary(_, _)
Vocabulary(words, seen) ==
    IF words = <<>> THEN seen
    ELSE IF \E i \in DOMAIN seen : seen[i] = Head(words)
         THEN Vocabulary(Tail(words), seen)
         ELSE Vocabulary(Tail(words), Append(seen, Head(words)))

RECURSIVE Concat(_)
Concat(seqs) == IF seqs = <<>> THEN <<>> ELSE Head(seqs) \o Concat(Tail(seqs))

Language(sentences) == Vocabulary(Concat(sentences), <<>>)

\* the id of a word; 0 for a word the vocabulary does not hold
WordId(language, w) ==
    IF \E i \in DOMAIN language : language[i] = w
    THEN CHOOSE i \in DOMAIN language : language[i] = w
    ELSE 0

Encode(language, sentence) ==
    [i \in DOMAIN sentence |-> WordId(language, sentence[i])]

\* Dataset(sentences, language, **dataset_kwargs): the encoded sentences, the
\* shared language, and the chunking of the stored array (0 as constructed,
\* 1 after rechunk("auto")).
Dataset(sentences, language) ==
    [data |-> [i \in DOMAIN sentences |-> Encode(language, sentences[i])],
     language |-> language,
     chunks |-> 0]

\* ds.data = ds.data.rechunk("auto")
Rechunk(ds) == [ds EXCEPT !.chunks = 1]

EmptyDataset == [data |-> <<>>, language |-> <<>>, chunks |-> 0]

\* pickle.dump: the object as a stream of numbers, every sequence preceded
\* by its length.
RECURSIVE Flatten(_)
Flatten(seqs) ==
    IF seqs = <<>> THEN <<>>
    ELSE <<Len(Head(seqs))>> \o Head(seqs) \o Flatten(Tail(seqs))

PickleDump(ds) ==
    <<ds.chunks, Len(ds.language)>> \o ds.language
        \o <<Len(ds.data)>> \o Flatten(ds.data)

\* pickle.load: k length-prefixed sequences read from position at; ok is
\* FALSE when the stream ends early or holds more than it should.
RECURSIVE ParseSeqs(_, _, _, _)
ParseSeqs(bytes, at, k, acc) ==
    IF k = 0 THEN [ok |-> at = Len(bytes) + 1, val |-> acc]
    ELSE IF at > Len(bytes) \/ at + bytes[at] > Len(bytes)
         THEN [ok |-> FALSE, val |-> acc]
         ELSE ParseSeqs(bytes, at + bytes[at] + 1, k - 1,
                        Append(acc, SubSeq(bytes, at + 1, at + bytes[at])))

PickleLoad(bytes) ==
    IF Len(bytes) < 2 \/ Len(bytes) < 3 + bytes[2]
    THEN [ok |-> FALSE, val |-> EmptyDataset]
    ELSE LET nvoc == bytes[2]
             body == ParseSeqs(bytes, nvoc + 4, bytes[nvoc + 3], <<>>)
         IN [ok |-> body.ok,
             val |-> [data |-> body.val,
                      language |-> SubSeq(bytes, 3, nvoc + 2),
                      chunks |-> bytes[1]]]

\* ------------------------------------------------ the storage directory
NoFile == [exists |-> FALSE, bytes |-> <<>>]
WrittenFile(bytes) == [exists |-> TRUE, bytes |-> bytes]
\* open(path, "wb") creates or truncates the file before anything is dumped
TruncatedFile == [exists |-> TRUE, bytes |-> <<>>]

\* archive: yoochoose-data.7z is a file; dir: yoochoose-data is a directory;
\* files: the files in it; cache_train, cache_test: the two .pkl files;
\* cache_by: the parameters of the call that wrote cache_train (a history
\* field, read by no operation).
EmptyDir ==
    [archive |-> FALSE, dir |-> FALSE, files |-> {},
     cache_train |-> NoFile, cache_test |-> NoFile, cache_by |-> <<>>]

\* ---------------------------------------- download_and_unpack_yoochoose
\* The outcomes of one call on a storage directory in state st: the state it
\* leaves, how it ends, and the steps it took. The download either fetches the
\* archive or raises. The extraction either unpacks both files or raises
\* PatoolError after writing any proper subset of them; the handler logs it and
\* calls os.removedirs, which raises OSError on a directory that is not empty.
Unpack(st) ==
    {[st |-> [st EXCEPT !.dir = TRUE, !.files = FileNames],
      outcome |-> "returned", did |-> {"unpack"}, failed |-> "none"]}
    \cup {[st |-> [st EXCEPT !.dir = FALSE, !.files = {}],
           outcome |-> "returned", did |-> {"unpack"}, failed |-> "unpack"]}
    \cup {[st |-> [st EXCEPT !.dir = TRUE, !.files = w],
           outcome |-> "raised", did |-> {"unpack"}, failed |-> "unpack"] :
             w \in (SUBSET FileNames) \ {{}, FileNames}}

\* the unpack without the os.path.isdir test
UnpackStepUnguarded(st) == Unpack(st)

\* lines 63-74: the unpack is skipped when the directory is there
UnpackStep(st) ==
    IF ~st.dir THEN Unpack(st)
    ELSE {[st |-> st, outcome |-> "returned", did |-> {}, failed |-> "none"]}

\* lines 55-74: the download is skipped when the archive is there
DownloadAndUnpack(st) ==
    IF ~st.archive
    THEN {[st |-> st, outcome |-> "raised", did |-> {"download"},
           failed |-> "download"]}
         \cup {[u EXCEPT !.did = @ \cup {"download"}] :
                 u \in UnpackStep([st EXCEPT !.archive = TRUE])}
    ELSE UnpackStep(st)

\* ------------------------------------------------------------ the state
VARIABLES
    raw,        \* file name -> the rows of that file in the archive
    fs,         \* storage directory -> its state
    last,       \* the last call of yoochoose: parameters, locals, result
    budget,     \* calls left in this behaviour
    acq,        \* the last call of download_and_unpack_yoochoose
    prev,       \* the call of download_and_unpack_yoochoose before it
    pc,         \* main: the statement it is at
    args,       \* main: args.model and args.epochs
    e,          \* main: the loop variable
    global_step,\* main: the step counter
    events      \* main: run_epoch calls and checkpoint writes, in order

vars == <<raw, fs, last, budget, acq, prev, pc, args, e, global_step, events>>
dataVars == <<raw, fs, last, budget>>
mainVars == <<pc, args, e, global_step, events>>

\* ------------------------------------------------------------- yoochoose
\* Lines 149-200 on the rows read: every run the two unstable sorts allow,
\* with the locals the claims speak of.
PipelineRun(p, filtered, sorted, sessions) ==
    LET train0 == SplitTrain(sorted)
        test0 == SplitTest(sorted)
        df_test == DropUnseen(test0, train0)
        df == IF p.div64
              THEN MergeSessions(train0, Div64Sessions(sessions))
              ELSE train0
    IN [filtered |-> filtered, sorted |-> sorted,
        train0 |-> train0, test0 |-> test0, sessions |-> sessions,
        agg |-> GroupbyAggList(df), agg_test |-> GroupbyAggList(df_test)]

PipelineRuns(rows, p) ==
    LET unique == IF p.filter_unique THEN FilterUnique(rows, p.min_unique)
                  ELSE rows
        filtered == DropShortSessions(unique)
    IN UNION {{PipelineRun(p, filtered, sorted, sessions) :
                 sessions \in IF p.div64
                              THEN SortValues(DropDuplicates(SplitTrain(sorted)))
                              ELSE {<<>>}} :
              sorted \in SortValues(filtered)}

NoRun ==
    [filtered |-> <<>>, sorted |-> <<>>, train0 |-> <<>>, test0 |-> <<>>,
     sessions |-> <<>>, agg |-> <<>>, agg_test |-> <<>>]

Stages == {"acquisition", "parsing", "filtering", "splitting", "aggregation"}

\* The record of a call: how it ended (returned or raised), what it returned
\* (a Dataset with its language, or the aggregation), by which path, the
\* stages it went through and the locals of the pipeline.
Result(d, p, path, outcome, ret, ds, run, stages) ==
    [dir |-> d, p |-> p, path |-> path, outcome |-> outcome, ret |-> ret,
     ds |-> ds, run |-> run, stages |-> stages]

NoCall ==
    Result(0, CHOOSE q \in Params : TRUE, "none", "none", "none",
           EmptyDataset, NoRun, {})

\* lines 121-127: the cache hit
CacheHit(d, st, p) ==
    LET loaded == PickleLoad(st.cache_train.bytes)
    IN IF loaded.ok
       THEN {[st |-> st,
              res |-> Result(d, p, "cache", "returned", "dataset",
                             Rechunk(loaded.val), NoRun, {})]}
       ELSE {[st |-> st,
              res |-> Result(d, p, "cache", "raised", "none",
                             EmptyDataset, NoRun, {})]}

\* ds_test dumped to yoochoose-ds.pkl and ds to yoochoose-ds-test.pkl
WriteCacheSwapped(st, p, ds, ds_test) ==
    LET train == WrittenFile(PickleDump(ds_test))
        test == WrittenFile(PickleDump(ds))
    IN {[st |-> [st EXCEPT !.cache_train = train, !.cache_test = test,
                           !.cache_by = <<p>>],
         outcome |-> "returned"]}

\* lines 213-217: ds is dumped to yoochoose-ds.pkl, then ds_test to
\* yoochoose-ds-test.pkl; either open or either dump may fail.
WriteCache(st, p, ds, ds_test) ==
    LET train == WrittenFile(PickleDump(ds))
        test == WrittenFile(PickleDump(ds_test))
        by == <<p>>
    IN {[st |-> [st EXCEPT !.cache_train = train, !.cache_test = test,
                           !.cache_by = by],
         outcome |-> "returned"],
        [st |-> st, outcome |-> "raised"],
        [st |-> [st EXCEPT !.cache_train = TruncatedFile, !.cache_by = by],
         outcome |-> "raised"],
        [st |-> [st EXCEPT !.cache_train = train, !.cache_by = by],
         outcome |-> "raised"],
        [st |-> [st EXCEPT !.cache_train = train, !.cache_test = TruncatedFile,
                           !.cache_by = by],
         outcome |-> "raised"]}

\* lines 196-219 for one run of the pipeline
Finish(d, st, p, run, stages) ==
    IF p.return_agg
    THEN {[st |-> st,
           res |-> Result(d, p, "cold", "returned", "agg", EmptyDataset, run,
                          stages)]}
    ELSE LET language == Language(Itertuples(run.agg))
             ds == Dataset(Itertuples(run.agg), language)
             ds_test == Dataset(Itertuples(run.agg_test), language)
         IN IF p.cache
            THEN {[st |-> w.st,
                   res |-> Result(d, p, "cold", w.outcome,
                                  IF w.outcome = "returned" THEN "dataset"
                                  ELSE "none",
                                  ds, run, stages)] :
                     w \in WriteCache(st, p, ds, ds_test)}
            ELSE {[st |-> st,
                   res |-> Result(d, p, "cold", "returned", "dataset", ds, run,
                                  stages)]}

\* lines 129-219: the cold run
ColdRun(d, st, files, p) ==
    LET fn == IF p.test THEN "yoochoose-test.dat" ELSE "yoochoose-clicks.dat"
        isfile(s) == s.dir /\ fn \in s.files
        acqs == IF isfile(st)
                THEN {[st |-> st, outcome |-> "returned", did |-> {},
                       failed |-> "none"]}
                ELSE DownloadAndUnpack(st)
        work == Stages \ (IF isfile(st) THEN {"acquisition"} ELSE {})
    IN UNION {IF a.outcome = "raised" \/ ~isfile(a.st)
              THEN {[st |-> a.st,
                     res |-> Result(d, p, "cold", "raised", "none",
                                    EmptyDataset, NoRun, work \cap {"acquisition"})]}
              ELSE UNION {Finish(d, a.st, p, run, work) :
                            run \in PipelineRuns(
                                ReadCsv(files[fn], p.nrows, p.skiprows), p)} :
              a \in acqs}

YoochooseOutcomes(d, st, files, p) ==
    IF p.cache /\ st.cache_train.exists
    THEN CacheHit(d, st, p)
    ELSE ColdRun(d, st, files, p)

Yoochoose(d, p) ==
    /\ budget > 0
    /\ \E o \in YoochooseOutcomes(d, fs[d], raw, p) :
          /\ fs' = [fs EXCEPT ![d] = o.st]
          /\ last' = o.res
    /\ budget' = budget - 1
    /\ UNCHANGED <<raw, acq, prev, mainVars>>

\* ----------------------------------- download_and_unpack_yoochoose, called
NoAcq ==
    [dir |-> 0, before |-> EmptyDir, outcome |-> "none", did |-> {},
     failed |-> "none"]

DownloadAndUnpackYoochoose(d) ==
    /\ budget > 0
    /\ \E o \in DownloadAndUnpack(fs[d]) :
          /\ fs' = [fs EXCEPT ![d] = o.st]
          /\ acq' = [dir |-> d, before |-> fs[d], outcome |-> o.outcome,
                     did |-> o.did, failed |-> o.failed]
    /\ prev' = acq
    /\ budget' = budget - 1
    /\ UNCHANGED <<raw, last, mainVars>>

\* ------------------------------------------------------ specifications
IdleMain ==
    /\ pc = "idle" /\ args = [model |-> "stmp", epochs |-> 0]
    /\ e = 0 /\ global_step = 0 /\ events = <<>>

\* The pipeline on every clicks file of up to MaxRows rows: one call that
\* does not use the cache, on a storage directory that holds the unpacked data.
UnpackedDir == [EmptyDir EXCEPT !.archive = TRUE, !.dir = TRUE, !.files = FileNames]

InitPipeline ==
    /\ raw \in Archives(MaxRows)
    /\ fs = [d \in {1} |-> UnpackedDir]
    /\ last = NoCall /\ budget = 1
    /\ acq = NoAcq /\ prev = NoAcq
    /\ IdleMain

NextPipeline ==
    \E d \in DOMAIN fs, p \in {q \in Params : ~q.cache} : Yoochoose(d, p)

SpecPipeline == InitPipeline /\ [][NextPipeline]_vars

\* The same call on every data file of up to MaxSplitRows rows.
InitSplit ==
    /\ raw \in Archives(MaxSplitRows)
    /\ fs = [d \in {1} |-> UnpackedDir]
    /\ last = NoCall /\ budget = 1
    /\ acq = NoAcq /\ prev = NoAcq
    /\ IdleMain

SpecSplit == InitSplit /\ [][NextPipeline]_vars

\* Repeated calls on one storage directory that starts empty, each reading
\* the whole file (nrows and skiprows are None).
Init ==
    /\ raw \in Archives(MaxCacheRows)
    /\ fs = [d \in {1} |-> EmptyDir]
    /\ last = NoCall /\ budget = MaxCalls
    /\ acq = NoAcq /\ prev = NoAcq
    /\ IdleMain

Next ==
    \E d \in DOMAIN fs, p \in {q \in Params : q.nrows = None /\ q.skiprows = None} :
        Yoochoose(d, p)

Spec == Init /\ [][Next]_vars

\* download_and_unpack_yoochoose called on NDirs storage directories.
InitAcq ==
    /\ raw = [f \in FileNames |-> <<>>]
    /\ fs = [d \in 1..NDirs |-> EmptyDir]
    /\ last = NoCall /\ budget = MaxAcqCalls
    /\ acq = NoAcq /\ prev = NoAcq
    /\ IdleMain

NextAcq == \E d \in DOMAIN fs : DownloadAndUnpackYoochoose(d)

SpecAcq == InitAcq /\ [][NextAcq]_vars

\* ------------------------------------------------------------------ main
\* f"{e}.pkl" written with the epoch's index in place
CheckpointNameFirst(epoch) == 0

\* os.path.join(artifact_dir, f"{e}.pkl"): the file is named by the index
CheckpointName(epoch) == epoch

\* lines 9-34: the data set, the model (only 'stmp' is implemented), the
\* optimizer, the directories and the first global step
Setup ==
    /\ pc = "start" /\ args.model = "stmp"
    /\ global_step' \in 0..MaxInitStep
    /\ e' = 0
    /\ pc' = "loop"
    /\ UNCHANGED <<args, events, dataVars, acq, prev>>

\* line 15: raise NotImplementedError
SetupRaises ==
    /\ pc = "start" /\ args.model # "stmp"
    /\ pc' = "raised"
    /\ UNCHANGED <<args, e, global_step, events, dataVars, acq, prev>>

\* lines 36-47: global_step = run_epoch(e, ..., global_step=global_step, ...)
RunEpoch ==
    /\ pc = "loop" /\ e < args.epochs
    /\ \E returned \in global_step..(global_step + MaxStepInc) :
          /\ events' = Append(events, [kind |-> "run_epoch", e |-> e,
                                       file |-> None,
                                       passed |-> global_step,
                                       returned |-> returned])
          /\ global_step' = returned
    /\ pc' = "dump"
    /\ UNCHANGED <<args, e, dataVars, acq, prev>>

\* run_epoch raises: main ends with the exception
RunEpochRaises ==
    /\ pc = "loop" /\ e < args.epochs
    /\ pc' = "raised"
    /\ UNCHANGED <<args, e, global_step, events, dataVars, acq, prev>>

\* lines 49-50: the checkpoint of epoch e, then the next value of range()
Dump ==
    /\ pc = "dump"
    /\ events' = Append(events, [kind |-> "dump", e |-> e,
                                 file |-> CheckpointName(e),
                                 passed |-> None, returned |-> None])
    /\ e' = e + 1
    /\ pc' = "loop"
    /\ UNCHANGED <<args, global_step, dataVars, acq, prev>>

\* open or model_registry.dump raises: main ends with the exception
DumpRaises ==
    /\ pc = "dump"
    /\ pc' = "raised"
    /\ UNCHANGED <<args, e, global_step, events, dataVars, acq, prev>>

\* range(args.epochs) is exhausted: main returns
Return ==
    /\ pc = "loop" /\ e >= args.epochs
    /\ pc' = "done"
    /\ UNCHANGED <<args, e, global_step, events, dataVars, acq, prev>>

InitMain ==
    /\ raw = [f \in FileNames |-> <<>>]
    /\ fs = [d \in {1} |-> EmptyDir]
    /\ last = NoCall /\ budget = 0
    /\ acq = NoAcq /\ prev = NoAcq
    /\ pc = "start"
    /\ args \in [model : {"stmp", "stamp"}, epochs : 0..MaxEpochs]
    /\ e = 0 /\ global_step = 0 /\ events = <<>>

NextMain ==
    \/ Setup
    \/ SetupRaises
    \/ RunEpoch
    \/ RunEpochRaises
    \/ Dump
    \/ DumpRaises
    \/ Return

SpecMain == InitMain /\ [][NextMain]_vars

\* ---------------------------------------------------------------- claims
\* The last call of yoochoose ran the pipeline and returned.
ColdReturned == last.path = "cold" /\ last.outcome = "returned"

ItemsIn(agg) == UNION {{agg[s][i] : i \in DOMAIN agg[s]} : s \in DOMAIN agg}

\* C1: every session of the final aggregated training set and of the final
\* aggregated test set has length >= 2.
C1_MinSessionLength ==
    ColdReturned =>
        /\ \A s \in DOMAIN last.run.agg : Len(last.run.agg[s]) >= 2
        /\ \A s \in DOMAIN last.run.agg_test : Len(last.run.agg_test[s]) >= 2

\* C2: every item of a session of the final test set occurs in a session of
\* the final training set, div64 included.
C2_TestItemsInTraining ==
    ColdReturned => ItemsIn(last.run.agg_test) \subseteq ItemsIn(last.run.agg)

\* C3: when the unpack fails, the call ends with an error propagated to the
\* caller and the output directory no longer exists.
C3_FailedUnpackCleansUp ==
    acq.failed = "unpack" => acq.outcome = "raised" /\ ~fs[acq.dir].dir

FreshDatasets(p) ==
    LET fn == IF p.test THEN "yoochoose-test.dat" ELSE "yoochoose-clicks.dat"
        sentences(run) == Itertuples(run.agg)
    IN {Dataset(sentences(run), Language(sentences(run))) :
          run \in PipelineRuns(ReadCsv(raw[fn], p.nrows, p.skiprows), p)}

\* The last call was a cache hit on an artifact written by a call with the
\* same parameters.
CacheHitSameParams ==
    /\ last.path = "cache" /\ last.outcome = "returned"
    /\ fs[last.dir].cache_by = <<last.p>>

C6_ReturnAggReturnsAggregation ==
    (last.p.return_agg /\ last.outcome = "returned") => last.ret = "agg"

\* The timestamp of a session of the training split: that of its first row,
\* the one drop_duplicates keeps.
SessionTimestamp(df, s) ==
    df[CHOOSE i \in DOMAIN df :
          /\ df[i].session_id = s
          /\ \A j \in 1..(i - 1) : df[j].session_id # s].timestamp

\* C7: with div64, the final training set holds exactly the floor(S / DivBy)
\* most recent of the S sessions of the training split.
C7_Div64KeepsMostRecent ==
    (ColdReturned /\ last.p.div64) =>
        LET all == SessionsOf(last.run.train0)
            kept == DOMAIN last.run.agg
        IN /\ kept \subseteq all
           /\ Cardinality(kept) = Cardinality(all) \div DivBy
           /\ \A k \in kept, d \in all \ kept :
                 SessionTimestamp(last.run.train0, k)
                     >= SessionTimestamp(last.run.train0, d)

Occurrences(df, r) == Cardinality({i \in DOMAIN df : df[i] = r})

C9_EpochsThenCheckpoints ==
    /\ \A i \in DOMAIN events :
          /\ events[i].e = (i - 1) \div 2
          /\ events[i].kind = IF i % 2 = 1 THEN "run_epoch" ELSE "dump"
          /\ events[i].kind = "dump" => events[i].file = events[i].e
          /\ (events[i].kind = "run_epoch" /\ i > 2) =>
                events[i].passed = events[i - 2].returned
    /\ pc = "dump" => Len(events) = 2 * e + 1
    /\ pc \in {"loop", "done"} => Len(events) = 2 * e
    /\ pc = "done" =>
          /\ Len(events) = 2 * args.epochs
          /\ {events[i].file : i \in {j \in DOMAIN events : events[j].kind = "dump"}}
                = 0..(args.epochs - 1)

C9_Witness ==
    /\ pc = "done" /\ args.epochs = MaxEpochs /\ MaxEpochs >= 2
    /\ events[1].returned # events[1].passed

\* C10: yoochoose-ds.pkl exists only if yoochoose-ds-test.pkl exists.
C10_TrainArtifactHasTestArtifact ==
    \A d \in DOMAIN fs : fs[d].cache_train.exists => fs[d].cache_test.exists

====
